---- MODULE Spec2Model ----
(***************************************************************************)
(* veclite: Veclite<T>, a wrapper around Vec<T> (src/src/lib.rs), modelled  *)
(* for T = i32 as in the doctests.  A wrapper handle owns one heap buffer;  *)
(* every method of the wrapper is one action on the buffer of the handle    *)
(* it is called on.                                                         *)
(***************************************************************************)
EXTENDS Integers, Sequences, FiniteSets, TLC

VARIABLES heap, vel, adds, prepends, removes, calls, last, pre, panicked

vars == <<heap, vel, adds, prepends, removes, calls, last, pre, panicked>>

(* ------------------------------ bounds --------------------------------- *)

\* longest vector the driver builds
MaxLen == 3
\* number of state-changing calls the driver makes
MaxCalls == 4

\* the values the driver inserts (those of the doctests and examples)
Values == {5, 10, 20}
\* the indices the driver passes to remove and get: in range and out of range
Indices == 0..MaxLen

\* the two wrappers of the Clone doctest: v = Veclite::new(), v2 = v.clone()
Handles == {"v", "v2"}
\* heap buffers; NoBuf is the value of a handle that is not constructed
Bufs == {1, 2}
NoBuf == 0

(* ------------------------------ Option<T> ------------------------------ *)

Some(x) == [some |-> TRUE, val |-> x]
None == [some |-> FALSE, val |-> 0]

(* ------------------- the Vec<T> primitives delegated to ----------------- *)

\* Vec::push: the value becomes the last element
VecPush(s, value) == Append(s, value)

\* Vec::insert(index, element): panics if index > len, else shifts
\* everything from index on one position to the right
VecInsert(s, index, element) ==
    IF index > Len(s)
    THEN [panic |-> TRUE, vec |-> s]
    ELSE [panic |-> FALSE,
          vec |-> [k \in 1..(Len(s) + 1) |->
                      IF k < index + 1 THEN s[k]
                      ELSE IF k = index + 1 THEN element
                      ELSE s[k - 1]]]

\* Vec::remove(index): panics if index >= len, else takes the element out
\* and shifts everything after it one position to the left
VecRemove(s, index) ==
    IF index >= Len(s)
    THEN [panic |-> TRUE, vec |-> s, val |-> 0]
    ELSE [panic |-> FALSE,
          vec |-> [k \in 1..(Len(s) - 1) |->
                      IF k < index + 1 THEN s[k] ELSE s[k + 1]],
          val |-> s[index + 1]]

\* Vec::get(index) through the slice: Some(&s[index]) or None
VecGet(s, index) == IF index < Len(s) THEN Some(s[index + 1]) ELSE None

\* slice::Iter: the items yielded from position k (1-based) to the end
RECURSIVE SliceIter(_, _)
SliceIter(s, k) ==
    IF k > Len(s) THEN <<>> ELSE <<s[k]>> \o SliceIter(s, k + 1)

\* Display of one decimal digit
DigitChar(d) ==
    CASE d = 0 -> "0" [] d = 1 -> "1" [] d = 2 -> "2" [] d = 3 -> "3"
      [] d = 4 -> "4" [] d = 5 -> "5" [] d = 6 -> "6" [] d = 7 -> "7"
      [] d = 8 -> "8" [] d = 9 -> "9"

\* Display of an i32 (write!(f, "{}", item)): sign and decimal digits, as a
\* sequence of characters
RECURSIVE I32Display(_)
I32Display(n) ==
    IF n < 0 THEN <<"-">> \o I32Display(-n)
    ELSE IF n < 10 THEN <<DigitChar(n)>>
    ELSE I32Display(n \div 10) \o <<DigitChar(n % 10)>>

(* --------------------------- impl Veclite<T> --------------------------- *)

\* add gone wrong: the value is inserted at the front
add_front(s, value) == <<value>> \o s

\* add gone wrong: the value overwrites the last element of a non-empty vector
add_overwrite(s, value) ==
    IF Len(s) = 0 THEN <<value>> ELSE [s EXCEPT ![Len(s)] = value]

\* Veclite::add: self.0.push(value)
add(s, value) == VecPush(s, value)

\* push, reached on the inner Vec through dereferencing
push(s, value) == s \o <<value>>

\* prepend gone wrong: insert(1, value) on a non-empty vector
prepend_at1(s, value) == VecInsert(s, IF Len(s) = 0 THEN 0 ELSE 1, value)

\* prepend gone wrong: the value overwrites the first element
prepend_overwrite(s, value) ==
    [panic |-> FALSE,
     vec |-> IF Len(s) = 0 THEN <<value>> ELSE [s EXCEPT ![1] = value]]

\* Veclite::prepend: self.0.insert(0, value)
prepend(s, value) == VecInsert(s, 0, value)

\* remove gone wrong: the bounds test is index <= len
remove_le(s, index) ==
    IF index <= Len(s)
    THEN LET r == VecRemove(s, index)
         IN  [panic |-> r.panic, vec |-> r.vec, ret |-> Some(r.val)]
    ELSE [panic |-> FALSE, vec |-> s, ret |-> None]

\* remove gone wrong: swap_remove, the last element takes the freed place
remove_swap(s, index) ==
    IF index < Len(s)
    THEN [panic |-> FALSE,
          vec |-> [k \in 1..(Len(s) - 1) |->
                      IF k = index + 1 THEN s[Len(s)] ELSE s[k]],
          ret |-> Some(s[index + 1])]
    ELSE [panic |-> FALSE, vec |-> s, ret |-> None]

\* Veclite::remove: Some(self.0.remove(index)) if index < len, else None
remove(s, index) ==
    IF index < Len(s)
    THEN LET r == VecRemove(s, index)
         IN  [panic |-> r.panic, vec |-> r.vec, ret |-> Some(r.val)]
    ELSE [panic |-> FALSE, vec |-> s, ret |-> None]

\* Veclite::len
len(s) == Len(s)

\* Veclite::is_empty
is_empty(s) == Len(s) = 0

\* get gone wrong: the index is taken 1-based
get_from1(s, index) == IF index = 0 THEN None ELSE VecGet(s, index - 1)

\* Veclite::get
get(s, index) == VecGet(s, index)

\* Veclite::iter, walked to the end: the items in the order yielded
iter(s) == SliceIter(s, 1)

\* IntoIterator for &Veclite<T>, walked to the end
into_iter_ref(s) == SliceIter(s, 1)

\* iter_mut gone wrong: the walk starts at the second element
iter_mut_skip(s) == [k \in 1..Len(s) |-> IF k = 1 THEN s[k] ELSE s[k] + 1]

\* Veclite::iter_mut walked to the end with the body *x += 1
iter_mut_inc(s) == [k \in 1..Len(s) |-> s[k] + 1]

\* IntoIterator for &mut Veclite<T>, walked to the end with the body *x += 1
into_iter_mut_inc(s) == [k \in 1..Len(s) |-> s[k] + 1]

\* fmt gone wrong: the separator is written after every item
RECURSIVE fmtLoop_trailing(_, _, _)
fmtLoop_trailing(s, k, f) ==
    IF k > Len(s) THEN f
    ELSE fmtLoop_trailing(s, k + 1, f \o I32Display(s[k]) \o <<" ">>)

\* Display::fmt: the loop over self.0.iter().enumerate() from position k
\* (1-based, i = k - 1) with f the characters written so far
RECURSIVE fmtLoop(_, _, _)
fmtLoop(s, k, f) ==
    IF k > Len(s) THEN f
    ELSE LET sep == IF k - 1 > 0 THEN f \o <<" ">> ELSE f
         IN  fmtLoop(s, k + 1, sep \o I32Display(s[k]))

\* Display::fmt
fmt(s) == fmtLoop(s, 1, <<>>)

\* clone gone wrong: the new wrapper shares the buffer of the old one
clone_alias(h, b, nb) == [heap |-> h, buf |-> b]

\* Clone::clone: Veclite(self.0.clone()), a fresh buffer nb holding a copy of
\* every element of the buffer b
clone(h, b, nb) == [heap |-> [h EXCEPT ![nb] = [k \in 1..Len(h[b]) |-> h[b][k]]],
                    buf |-> nb]

(* ------------------------------- state --------------------------------- *)

\* the elements of the wrapper behind a handle
Contents(hd) == IF vel[hd] = NoBuf THEN <<>> ELSE heap[vel[hd]]

Live(hd) == vel[hd] # NoBuf

\* what the wrappers held before the call that is recorded in last
Snapshot == [hd \in Handles |-> [live |-> Live(hd), elems |-> Contents(hd)]]

\* let mut v = Veclite::new();
Init ==
    /\ heap = [b \in Bufs |-> <<>>]
    /\ vel = [hd \in Handles |-> IF hd = "v" THEN 1 ELSE NoBuf]
    /\ adds = 0
    /\ prepends = 0
    /\ removes = 0
    /\ calls = 0
    /\ last = [op |-> "new", h |-> "v", arg |-> 0, ret |-> 0]
    /\ pre = [hd \in Handles |-> [live |-> FALSE, elems |-> <<>>]]
    /\ panicked = FALSE

\* a call of a method on the wrapper behind hd that may run
CanCall(hd) == ~panicked /\ Live(hd)

\* a state-changing call is within the driver's budget
InBudget == calls < MaxCalls

Count(c, hd) == IF hd = "v" THEN c + 1 ELSE c

(* ------------------------------ actions -------------------------------- *)

\* hd.add(value)
Add(hd, value) ==
    /\ CanCall(hd) /\ InBudget /\ Len(Contents(hd)) < MaxLen
    /\ heap' = [heap EXCEPT ![vel[hd]] = add(@, value)]
    /\ adds' = Count(adds, hd)
    /\ calls' = calls + 1
    /\ last' = [op |-> "add", h |-> hd, arg |-> value, ret |-> 0]
    /\ pre' = Snapshot
    /\ UNCHANGED <<vel, prepends, removes, panicked>>

\* hd.push(value)
Push(hd, value) ==
    /\ CanCall(hd) /\ InBudget /\ Len(Contents(hd)) < MaxLen
    /\ heap' = [heap EXCEPT ![vel[hd]] = push(@, value)]
    /\ calls' = calls + 1
    /\ last' = [op |-> "push", h |-> hd, arg |-> value, ret |-> 0]
    /\ pre' = Snapshot
    /\ UNCHANGED <<vel, adds, prepends, removes, panicked>>

\* hd.prepend(value)
Prepend(hd, value) ==
    /\ CanCall(hd) /\ InBudget /\ Len(Contents(hd)) < MaxLen
    /\ LET r == prepend(heap[vel[hd]], value)
       IN  /\ heap' = [heap EXCEPT ![vel[hd]] = r.vec]
           /\ panicked' = r.panic
    /\ prepends' = Count(prepends, hd)
    /\ calls' = calls + 1
    /\ last' = [op |-> "prepend", h |-> hd, arg |-> value, ret |-> 0]
    /\ pre' = Snapshot
    /\ UNCHANGED <<vel, adds, removes>>

\* hd.remove(index)
Remove(hd, index) ==
    /\ CanCall(hd)
    /\ LET r == remove(heap[vel[hd]], index)
       IN  /\ r.ret.some => InBudget
           /\ heap' = [heap EXCEPT ![vel[hd]] = r.vec]
           /\ panicked' = r.panic
           /\ removes' = IF r.ret.some /\ ~r.panic THEN Count(removes, hd) ELSE removes
           /\ calls' = IF r.ret.some THEN calls + 1 ELSE calls
           /\ last' = [op |-> "remove", h |-> hd, arg |-> index, ret |-> r.ret]
    /\ pre' = Snapshot
    /\ UNCHANGED <<vel, adds, prepends>>

\* hd.len()
LenCall(hd) ==
    /\ CanCall(hd)
    /\ last' = [op |-> "len", h |-> hd, arg |-> 0, ret |-> len(heap[vel[hd]])]
    /\ pre' = Snapshot
    /\ UNCHANGED <<heap, vel, adds, prepends, removes, calls, panicked>>

\* hd.is_empty()
IsEmpty(hd) ==
    /\ CanCall(hd)
    /\ last' = [op |-> "is_empty", h |-> hd, arg |-> 0,
                ret |-> is_empty(heap[vel[hd]])]
    /\ pre' = Snapshot
    /\ UNCHANGED <<heap, vel, adds, prepends, removes, calls, panicked>>

\* hd.get(index)
Get(hd, index) ==
    /\ CanCall(hd)
    /\ last' = [op |-> "get", h |-> hd, arg |-> index,
                ret |-> get(heap[vel[hd]], index)]
    /\ pre' = Snapshot
    /\ UNCHANGED <<heap, vel, adds, prepends, removes, calls, panicked>>

\* for x in hd.iter(): the items seen, in order
Iter(hd) ==
    /\ CanCall(hd)
    /\ last' = [op |-> "iter", h |-> hd, arg |-> 0, ret |-> iter(heap[vel[hd]])]
    /\ pre' = Snapshot
    /\ UNCHANGED <<heap, vel, adds, prepends, removes, calls, panicked>>

\* for x in &hd: the items seen, in order
IntoIterRef(hd) ==
    /\ CanCall(hd)
    /\ last' = [op |-> "into_iter_ref", h |-> hd, arg |-> 0,
                ret |-> into_iter_ref(heap[vel[hd]])]
    /\ pre' = Snapshot
    /\ UNCHANGED <<heap, vel, adds, prepends, removes, calls, panicked>>

\* for x in hd.iter_mut() { *x += 1 }
IterMut(hd) ==
    /\ CanCall(hd) /\ InBudget
    /\ heap' = [heap EXCEPT ![vel[hd]] = iter_mut_inc(@)]
    /\ calls' = calls + 1
    /\ last' = [op |-> "iter_mut", h |-> hd, arg |-> 0, ret |-> 0]
    /\ pre' = Snapshot
    /\ UNCHANGED <<vel, adds, prepends, removes, panicked>>

\* for x in &mut hd { *x += 1 }
IntoIterMut(hd) ==
    /\ CanCall(hd) /\ InBudget
    /\ heap' = [heap EXCEPT ![vel[hd]] = into_iter_mut_inc(@)]
    /\ calls' = calls + 1
    /\ last' = [op |-> "into_iter_mut", h |-> hd, arg |-> 0, ret |-> 0]
    /\ pre' = Snapshot
    /\ UNCHANGED <<vel, adds, prepends, removes, panicked>>

\* format!("{}", hd)
Display(hd) ==
    /\ CanCall(hd)
    /\ last' = [op |-> "display", h |-> hd, arg |-> 0, ret |-> fmt(heap[vel[hd]])]
    /\ pre' = Snapshot
    /\ UNCHANGED <<heap, vel, adds, prepends, removes, calls, panicked>>

\* let v2 = v.clone();  (a v2 made earlier is dropped and its buffer reused)
Clone ==
    /\ CanCall("v") /\ InBudget
    /\ LET r == clone([heap EXCEPT ![2] = <<>>], vel["v"], 2)
       IN  /\ heap' = r.heap
           /\ vel' = [vel EXCEPT !["v2"] = r.buf]
    /\ calls' = calls + 1
    /\ last' = [op |-> "clone", h |-> "v", arg |-> 0, ret |-> 0]
    /\ pre' = Snapshot
    /\ UNCHANGED <<adds, prepends, removes, panicked>>

\* every method called on the wrapper made by new()
Next ==
    \/ \E value \in Values : Add("v", value)
    \/ \E value \in Values : Push("v", value)
    \/ \E value \in Values : Prepend("v", value)
    \/ \E index \in Indices : Remove("v", index)
    \/ LenCall("v")
    \/ IsEmpty("v")
    \/ \E index \in Indices : Get("v", index)
    \/ Iter("v")
    \/ IntoIterRef("v")
    \/ IterMut("v")
    \/ IntoIterMut("v")
    \/ Display("v")

Spec == Init /\ [][Next]_vars

\* the calls of the length property: add, prepend, remove, get, len and
\* is_empty on the wrapper made by new()
NextCore ==
    \/ \E value \in Values : Add("v", value)
    \/ \E value \in Values : Prepend("v", value)
    \/ \E index \in Indices : Remove("v", index)
    \/ \E index \in Indices : Get("v", index)
    \/ LenCall("v")
    \/ IsEmpty("v")

SpecCore == Init /\ [][NextCore]_vars

\* a wrapper and its clone, each changed by add, prepend, remove and by
\* mutation in place
NextClone ==
    \/ Clone
    \/ \E hd \in Handles, value \in Values : Add(hd, value)
    \/ \E hd \in Handles, value \in Values : Prepend(hd, value)
    \/ \E hd \in Handles, index \in Indices : Remove(hd, index)
    \/ \E hd \in Handles : IterMut(hd)
    \/ \E hd \in Handles : IntoIterMut(hd)

SpecClone == Init /\ [][NextClone]_vars

(* ------------------------------ properties ----------------------------- *)

\* the elements, before and after, of the wrapper the recorded call was made on
Before == pre[last.h].elems
After == Contents(last.h)

\* a rendering cut at its spaces: the fields, from position k on, with cur the
\* field being read
RECURSIVE SplitSpaces(_, _, _)
SplitSpaces(out, k, cur) ==
    IF k > Len(out) THEN <<cur>>
    ELSE IF out[k] = " " THEN <<cur>> \o SplitSpaces(out, k + 1, <<>>)
    ELSE SplitSpaces(out, k + 1, Append(cur, out[k]))

\* the rendering "5 10 20"
R_5_10_20 == <<"5", " ", "1", "0", " ", "2", "0">>

\* C1: after any sequence of add, prepend, remove, get, len and is_empty calls
\* on a wrapper made by new(), the length, and what len() returns, is the
\* number of add calls plus the number of prepend calls minus the number of
\* remove calls that returned Some; a remove that returned None and the
\* queries leave the counts and the length as they were.
C1_LenCounts ==
    /\ Len(Contents("v")) = adds + prepends - removes
    /\ last.op = "len" => last.ret = adds + prepends - removes
    /\ last.op = "is_empty" => (last.ret <=> adds + prepends - removes = 0)
    /\ (last.op \in {"get", "len", "is_empty"}
          \/ (last.op = "remove" /\ ~last.ret.some))
       => Len(After) = Len(Before)

C1_Witness ==
    /\ last.op = "len" /\ last.ret = 2
    /\ adds = 2 /\ prepends = 1 /\ removes = 1

\* C2: remove(i) with i >= len() returns None, does not panic and leaves the
\* length and every element as they were.
C2_RemoveOutOfRange ==
    (last.op = "remove" /\ last.arg >= Len(Before))
    => /\ ~panicked
       /\ last.ret = None
       /\ Len(After) = Len(Before)
       /\ \A j \in 1..Len(Before) : After[j] = Before[j]

C2_Witness ==
    /\ last.op = "remove" /\ last.arg = Len(Before) /\ Len(Before) = 2
    /\ last.ret = None

\* C3: remove(i) with i < len() returns the element that was at i, the length
\* goes down by exactly one, the elements before i stay where they were and
\* each element after i moves one place to the left; from [5, 10, 20],
\* remove(0) returns 5 and leaves a wrapper displayed as "10 20".
C3_RemoveInRange ==
    (last.op = "remove" /\ last.arg < Len(Before))
    => /\ ~panicked
       /\ last.ret = Some(Before[last.arg + 1])
       /\ Len(After) = Len(Before) - 1
       /\ \A j \in 0..(Len(Before) - 1) :
             /\ j < last.arg => After[j + 1] = Before[j + 1]
             /\ j > last.arg => After[j] = Before[j + 1]
       /\ (Before = <<5, 10, 20>> /\ last.arg = 0)
          => last.ret = Some(5) /\ fmt(After) = <<"1", "0", " ", "2", "0">>

C3_Witness ==
    /\ last.op = "remove" /\ last.arg = 1
    /\ Before = <<5, 10, 20>> /\ After = <<5, 20>> /\ last.ret = Some(10)

\* C4: after prepend(x) the length is one more, get(0) returns x and the
\* element that was at j is at j + 1, for every j.
C4_Prepend ==
    last.op = "prepend"
    => /\ ~panicked
       /\ len(After) = Len(Before) + 1
       /\ get(After, 0) = Some(last.arg)
       /\ \A j \in 1..Len(Before) : After[j + 1] = Before[j]

C4_Witness ==
    /\ last.op = "prepend" /\ last.arg = 5
    /\ Before = <<10, 20>> /\ After = <<5, 10, 20>>

\* C5: after add(x) the length is one more, get(len() - 1) returns x and the
\* element at every earlier position is unchanged.
C5_Add ==
    last.op = "add"
    => /\ len(After) = Len(Before) + 1
       /\ get(After, len(After) - 1) = Some(last.arg)
       /\ \A j \in 1..Len(Before) : After[j] = Before[j]

C5_Witness ==
    /\ last.op = "add" /\ last.arg = 20
    /\ Before = <<5, 10>> /\ After = <<5, 10, 20>>

\* C6: the rendering is the elements' own renderings in index order with
\* exactly one space between neighbours, nothing before the first or after
\* the last and no newline; an empty wrapper renders as the empty string,
\* and the wrapper [5, 10, 20] renders as "5 10 20".
C6_Display ==
    last.op = "display"
    => /\ After = Before
       /\ Before = <<>> => last.ret = <<>>
       /\ Before # <<>> =>
             /\ SplitSpaces(last.ret, 1, <<>>)
                   = [j \in 1..Len(Before) |-> I32Display(Before[j])]
             /\ last.ret[1] # " " /\ last.ret[Len(last.ret)] # " "
             /\ Cardinality({k \in 1..Len(last.ret) : last.ret[k] = " "})
                   = Len(Before) - 1
       /\ \A k \in 1..Len(last.ret) : last.ret[k] # "\n"
       /\ Before = <<5, 10, 20>> => last.ret = R_5_10_20

C6_Witness ==
    /\ last.op = "display" /\ last.ret = R_5_10_20
    /\ adds = 2 /\ prepends = 1 /\ removes = 0 /\ calls = 3

\* C7: clone() gives a wrapper with the same length and equal elements, and
\* afterwards a call of add, prepend, remove or a mutation in place on one of
\* the two leaves the length and the elements of the other as they were.
C7_CloneIndependent ==
    /\ last.op = "clone"
       => /\ Live("v2")
          /\ Contents("v") = pre["v"].elems
          /\ Len(Contents("v2")) = Len(Contents("v"))
          /\ \A j \in 1..Len(Contents("v")) : Contents("v2")[j] = Contents("v")[j]
    /\ last.op \in {"add", "prepend", "remove", "iter_mut", "into_iter_mut"}
       => \A hd \in Handles \ {last.h} :
             /\ Live(hd) = pre[hd].live
             /\ Contents(hd) = pre[hd].elems

C7_Witness ==
    /\ last.op = "remove" /\ last.h = "v2" /\ last.ret = Some(5)
    /\ Contents("v") = <<5, 10>> /\ Contents("v2") = <<10>>

C7_WitnessOriginal ==
    /\ last.op = "iter_mut" /\ last.h = "v"
    /\ Contents("v") = <<6, 11>> /\ Contents("v2") = <<5, 10>>

\* C8: get(i) returns the element at i when i < len() and None when
\* i >= len(); it does not panic and leaves the length and every element as
\* they were.
C8_Get ==
    last.op = "get"
    => /\ ~panicked
       /\ last.arg < Len(Before) => last.ret = Some(Before[last.arg + 1])
       /\ last.arg >= Len(Before) => last.ret = None
       /\ After = Before

C8_Witness ==
    /\ last.op = "get" /\ Before = <<5, 10, 20>>
    /\ last.arg = 2 /\ last.ret = Some(20)

C8_WitnessAbsent ==
    /\ last.op = "get" /\ Before = <<5, 10, 20>>
    /\ last.arg = 3 /\ last.ret = None

C9_WitnessScenario ==
    /\ last.op = "display" /\ last.ret = R_5_10_20
    /\ adds = 0 /\ prepends = 1 /\ removes = 0 /\ calls = 3

\* C10: a walk by shared reference yields every element once, in index
\* order, and changes neither the length nor an element; a walk by mutable
\* reference that adds 1 to each item keeps the length and leaves at every
\* position the earlier value plus 1, and the rendering is that of the
\* incremented elements.
C10_Iteration ==
    /\ last.op \in {"iter", "into_iter_ref"}
       => /\ Len(last.ret) = Len(Before)
          /\ \A j \in 1..Len(Before) : last.ret[j] = Before[j]
          /\ After = Before
    /\ last.op \in {"iter_mut", "into_iter_mut"}
       => /\ Len(After) = Len(Before)
          /\ \A j \in 1..Len(Before) : After[j] = Before[j] + 1
          /\ Before # <<>> =>
                /\ SplitSpaces(fmt(After), 1, <<>>)
                      = [j \in 1..Len(Before) |-> I32Display(Before[j] + 1)]
                /\ fmt(After) # fmt(Before)

C10_Witness ==
    /\ last.op = "iter_mut"
    /\ Before = <<5, 10, 20>> /\ After = <<6, 11, 21>>

C10_WitnessShared ==
    /\ last.op = "iter" /\ last.ret = <<5, 10, 20>> /\ After = <<5, 10, 20>>

====
